---- MODULE Spec2Model ----
(***************************************************************************)
(* Model of the repub package-repository server: the three-step publish    *)
(* handshake (UploadPackageHandler, FinalizeUploadHandler), the publish    *)
(* workflow packageService.PublishPackage with its collaborators (package  *)
(* repository, blob storage, pubspec parser) and the archive extractor.    *)
(*                                                                         *)
(* Strings that the code inspects character by character (package names,   *)
(* version strings) are sequences of one-character strings.  A tar entry   *)
(* name is the sequence of its "/"-separated segments.  Archive bytes are  *)
(* named by an identifier and described by the table Archives.             *)
(***************************************************************************)
EXTENDS Integers, Sequences, FiniteSets, TLC

(***************************************************************************)
(* Bounds of the model.                                                    *)
(***************************************************************************)
MaxStage == 2
MaxRequests == 3
MaxEntries == 3
MaxVersionLen == 5
MaxVersions == 2

\* Concurrent request handlers (goroutines serving HTTP requests or direct
\* callers of the PubService interface).
Procs == {"p1", "p2"}

\* Uploader identities.  The HTTP handler always records HandlerUploader.
HandlerUploader == "authenticated-user"
Uploaders == {HandlerUploader, "bob"}

(***************************************************************************)
(* Characters, names and versions.                                         *)
(***************************************************************************)
LowerLetters == {"a","b","c","d","e","f","g","h","i","j","k","l","m",
                 "n","o","p","q","r","s","t","u","v","w","x","y","z"}
UpperLetters == {"A","B","C","D","E","F","G","H","I","J","K","L","M",
                 "N","O","P","Q","R","S","T","U","V","W","X","Y","Z"}
Digits == {"0","1","2","3","4","5","6","7","8","9"}

MaxNameLen == 64

pkgA == <<"p","k","g","A">>
pkgB == <<"p","k","g","B">>
V100 == <<"1",".","0",".","0">>
V110 == <<"1",".","1",".","0">>

\* strings.Contains(part, c) for a one-character c
ContainsChar(s, c) == \E i \in 1..Len(s) : s[i] = c

\* strings.Split(s, sep) for a one-character separator: the parts of s
RECURSIVE SplitAcc(_, _, _)
SplitAcc(s, sep, cur) ==
    IF s = <<>> THEN <<cur>>
    ELSE IF Head(s) = sep THEN <<cur>> \o SplitAcc(Tail(s), sep, <<>>)
    ELSE SplitAcc(Tail(s), sep, Append(cur, Head(s)))

Split(s, sep) == SplitAcc(s, sep, <<>>)

isValidPackageName(name) ==
    /\ Len(name) # 0
    /\ Len(name) <= MaxNameLen
    /\ name[1] \in LowerLetters \cup UpperLetters \cup {"_"}
    /\ \A i \in 1..Len(name) :
          name[i] \in LowerLetters \cup UpperLetters \cup Digits \cup {"_"}

\* a check that is content with major.minor
isValidVersionMajorMinor(version) ==
    /\ Len(version) # 0
    /\ LET parts == Split(version, ".")
       IN  /\ Len(parts) >= 2
           /\ \A i \in 1..Len(parts) :
                 /\ Len(parts[i]) # 0
                 /\ \/ ContainsChar(parts[i], "-")
                    \/ ContainsChar(parts[i], "+")
                    \/ parts[i][1] \in Digits

isValidVersion(version) ==
    /\ Len(version) # 0
    /\ LET parts == Split(version, ".")
       IN  /\ Len(parts) >= 3
           /\ \A i \in 1..Len(parts) :
                 /\ Len(parts[i]) # 0
                 /\ \/ ContainsChar(parts[i], "-")
                    \/ ContainsChar(parts[i], "+")
                    \/ parts[i][1] \in Digits

(***************************************************************************)
(* Errors.  An error message is the sequence of the phrases that fmt.Errorf *)
(* wraps around each other, outermost first; Contains is                   *)
(* strings.Contains(err.Error(), phrase) for the phrases of the model.     *)
(***************************************************************************)
NoError == <<>>

Contains(err, phrase) == \E i \in 1..Len(err) : err[i] = phrase

Wrap(phrase, err) == <<phrase>> \o err

(***************************************************************************)
(* Manifest parser/validator.  A manifest text is a record: kind "blank"   *)
(* (only white space), "malformed" (not YAML) or "yaml" with the name and  *)
(* version fields as yaml.Unmarshal delivers them ("" when absent).        *)
(***************************************************************************)
Manifest(n, v) == [kind |-> "yaml", name |-> n, version |-> v]
BlankManifest == [kind |-> "blank", name |-> <<>>, version |-> <<>>]
MalformedManifest == [kind |-> "malformed", name |-> <<>>, version |-> <<>>]

ValidatePubspec(pubspec) ==
    IF pubspec.Name = <<>> THEN <<"package name is required">>
    ELSE IF pubspec.Version = <<>> THEN <<"package version is required">>
    ELSE IF ~isValidPackageName(pubspec.Name) THEN <<"invalid package name format">>
    ELSE IF ~isValidVersion(pubspec.Version) THEN <<"invalid version format">>
    ELSE NoError

\* ParseYAML returns [pubspec, err]
ParseYAML(yamlContent) ==
    LET pubspec == [Name |-> yamlContent.name, Version |-> yamlContent.version]
        none == [Name |-> <<>>, Version |-> <<>>]
    IN  IF yamlContent.kind = "blank"
          THEN [pubspec |-> none, err |-> <<"pubspec content is empty">>]
        ELSE IF yamlContent.kind = "malformed"
          THEN [pubspec |-> none, err |-> <<"failed to parse YAML">>]
        ELSE IF ValidatePubspec(pubspec) # NoError
          THEN [pubspec |-> none,
                err |-> Wrap("pubspec validation failed", ValidatePubspec(pubspec))]
        ELSE [pubspec |-> pubspec, err |-> NoError]

(***************************************************************************)
(* Archive extractor.                                                      *)
(***************************************************************************)
\* strings.ToLower on the file names that occur in the archives of the model
ToLower(seg) ==
    CASE seg \in {"pubspec.yaml", "PUBSPEC.YAML", "Pubspec.yaml"} -> "pubspec.yaml"
      [] seg \in {"readme.md", "README.md", "Readme.md"} -> "readme.md"
      [] seg \in {"changelog.md", "CHANGELOG.md"} -> "changelog.md"
      [] OTHER -> seg

NoContent == [kind |-> "none"]
Text(s) == [kind |-> "text", text |-> s]

FileEntry(name, content) == [Name |-> name, Typeflag |-> "file", content |-> content]
DirEntry(name) == [Name |-> name, Typeflag |-> "dir", content |-> NoContent]

\* strings.TrimPrefix(header.Name, "./") followed by dropping the first
\* path segment when there is more than one
RelativeName(name) ==
    LET trimmed == IF Len(name) > 1 /\ name[1] = "." THEN Tail(name) ELSE name
    IN  IF Len(trimmed) > 1 THEN Tail(trimmed) ELSE trimmed

\* a loop body that keeps the first readme instead of the last
ExtractEntryFirstReadme(acc, header) ==
    LET fileName == RelativeName(header.Name)
        lowered == IF Len(fileName) = 1 THEN ToLower(fileName[1]) ELSE "<path>"
    IN  IF header.Typeflag = "dir" THEN acc
        ELSE IF lowered = "pubspec.yaml"
          THEN IF ~acc.foundPubspec
                 THEN [acc EXCEPT !.pubspecContent = header.content,
                                  !.foundPubspec = TRUE]
                 ELSE acc
        ELSE IF lowered = "readme.md"
          THEN IF acc.readme = NoContent THEN [acc EXCEPT !.readme = header.content]
               ELSE acc
        ELSE IF lowered = "changelog.md" THEN [acc EXCEPT !.changelog = header.content]
        ELSE acc

\* one iteration of the loop over the tar entries; acc is the record of the
\* loop's variables
ExtractEntry(acc, header) ==
    LET fileName == RelativeName(header.Name)
        lowered == IF Len(fileName) = 1 THEN ToLower(fileName[1]) ELSE "<path>"
    IN  IF header.Typeflag = "dir" THEN acc
        ELSE IF lowered = "pubspec.yaml"
          THEN IF ~acc.foundPubspec
                 THEN [acc EXCEPT !.pubspecContent = header.content,
                                  !.foundPubspec = TRUE]
                 ELSE acc
        ELSE IF lowered = "readme.md" THEN [acc EXCEPT !.readme = header.content]
        ELSE IF lowered = "changelog.md" THEN [acc EXCEPT !.changelog = header.content]
        ELSE acc

RECURSIVE ExtractLoop(_, _)
ExtractLoop(acc, entries) ==
    IF entries = <<>> THEN acc
    ELSE ExtractLoop(ExtractEntry(acc, Head(entries)), Tail(entries))

\* extractFilesFromArchive returns [pubspecContent, readme, changelog, err]
extractFilesFromArchive(archiveData) ==
    LET init == [pubspecContent |-> BlankManifest, readme |-> NoContent,
                 changelog |-> NoContent, foundPubspec |-> FALSE]
        fail(msg) == [pubspecContent |-> BlankManifest, readme |-> NoContent,
                      changelog |-> NoContent, err |-> msg]
        acc == ExtractLoop(init, archiveData.entries)
    IN  IF ~archiveData.gzip THEN fail(<<"failed to create gzip reader">>)
        ELSE IF ~acc.foundPubspec THEN fail(<<"pubspec.yaml not found in archive">>)
        ELSE [pubspecContent |-> acc.pubspecContent, readme |-> acc.readme,
              changelog |-> acc.changelog, err |-> NoError]

\* calculateSHA256: the hex digest, a function of the bytes alone
calculateSHA256(data) == <<"sha256", data>>

(***************************************************************************)
(* The archives that clients upload in the model.  len is len(archiveData),*)
(* gzip says whether the bytes are a gzip stream, entries are the tar      *)
(* entries in archive order.                                               *)
(***************************************************************************)
Archives ==
    [a1 |-> [len |-> 5, gzip |-> TRUE,
             entries |-> << DirEntry(<<"pkgA-1.0.0">>),
                            FileEntry(<<"pkgA-1.0.0", "pubspec.yaml">>, Manifest(pkgA, V100)),
                            FileEntry(<<"pkgA-1.0.0", "README.md">>, Text("# Hello")) >>],
     a2 |-> [len |-> 6, gzip |-> TRUE,
             entries |-> << FileEntry(<<"pkgA-1.0.0", "pubspec.yaml">>, Manifest(pkgA, V100)),
                            FileEntry(<<"pkgA-1.0.0", "CHANGELOG.md">>, Text("## 1.0.0")) >>],
     a3 |-> [len |-> 5, gzip |-> TRUE,
             entries |-> << FileEntry(<<".", "pubspec.yaml">>, Manifest(pkgA, V110)) >>],
     bad |-> [len |-> 6, gzip |-> TRUE,
              entries |-> << FileEntry(<<"pkgB-1.0.0", "lib", "pubspec.yaml">>, Manifest(pkgB, V100)),
                             FileEntry(<<"pkgB-1.0.0", "README.md">>, Text("# B")) >>]]

ArchiveIds == DOMAIN Archives

\* The manifest (name, version) that the workflow reads from an archive
PubspecOf(a) == ParseYAML(extractFilesFromArchive(Archives[a]).pubspecContent).pubspec

HasPubspec(a) ==
    /\ extractFilesFromArchive(Archives[a]).err = NoError
    /\ ParseYAML(extractFilesFromArchive(Archives[a]).pubspecContent).err = NoError

(***************************************************************************)
(* Finalize tokens.  Token(n) is the string "upload_<n>".                  *)
(***************************************************************************)
Token(n) == <<"upload_", n>>

\* fmt.Sprintf("upload_%d", len(archiveData))
FinalizeToken(archiveData) == Token(Archives[archiveData].len)

EmptyID == <<"", 0>>
UnusedID == Token(0)
UploadIDs == {FinalizeToken(a) : a \in ArchiveIds} \cup {EmptyID, UnusedID}

(***************************************************************************)
(* Blob storage: Store's key for (name, version), the convention           *)
(* {name}/{version}/{name}-{version}.tar.gz                                *)
(***************************************************************************)
StorageKey(packageName, version) == <<packageName, version, packageName, version, ".tar.gz">>

(***************************************************************************)
(* State.                                                                  *)
(***************************************************************************)
VARIABLES
    pendingUploads,     \* handlers.pendingUploads: token -> PublishRequest
    packages,           \* table packages, in insertion order; ID = position
    package_versions,   \* table package_versions, in insertion order
    package_uploaders,  \* table package_uploaders
    files,              \* blob storage: key -> bytes
    pc,                 \* position of each request handler
    loc,                \* local variables of each request handler
    result,             \* what each request handler returned
    tokState,           \* history: what became of the latest staging of a token
    issued,             \* history: stagings whose token no finalize has consumed
    staged,             \* history: number of successful stagings, per token
    obtained,           \* history: number of finalizes that found an upload, per token
    nReq,               \* number of finalize / publish requests started
    call,               \* a call of a function of the server: its arguments
    ret                 \* what that call returned

vars == <<pendingUploads, packages, package_versions, package_uploaders, files,
          pc, loc, result, tokState, issued, staged, obtained, nReq, call, ret>>

\* no function call is being looked at
NoCall == [op |-> "none"]
NoRet == [op |-> "none"]

store == <<packages, package_versions, package_uploaders>>

\* everything but the function call that is being looked at
server == <<pendingUploads, packages, package_versions, package_uploaders, files,
            pc, loc, result, tokState, issued, staged, obtained, nReq>>

NoRequest == [Archive |-> "none", Uploader |-> "none"]
NoPath == <<>>

NoLoc == [via |-> "none", uploadID |-> EmptyID, req |-> NoRequest, pkg |-> 0,
          archivePath |-> NoPath, err |-> NoError,
          began |-> "none", dupAtStart |-> FALSE, upAtStart |-> {},
          newAtStart |-> FALSE, expected |-> {}, wrote |-> {},
          overlapped |-> FALSE]

NoResult == [status |-> 0, code |-> "none", message |-> NoError]

\* the server after construction: empty tables, no pending upload, no request
Constructed ==
    /\ pendingUploads = << >>
    /\ packages = << >>
    /\ package_versions = << >>
    /\ package_uploaders = {}
    /\ files = << >>
    /\ pc = [p \in Procs |-> "idle"]
    /\ loc = [p \in Procs |-> NoLoc]
    /\ result = [p \in Procs |-> NoResult]
    /\ tokState = [t \in UploadIDs |-> "fresh"]
    /\ issued = {}
    /\ staged = [t \in UploadIDs |-> 0]
    /\ obtained = [t \in UploadIDs |-> 0]
    /\ nReq = 0

Init ==
    /\ Constructed
    /\ call = NoCall
    /\ ret = NoRet

(***************************************************************************)
(* Map helpers (Go maps / directory of files).                             *)
(***************************************************************************)
MapPut(m, k, v) == [x \in DOMAIN m \cup {k} |-> IF x = k THEN v ELSE m[x]]
MapDelete(m, k) == [x \in DOMAIN m \ {k} |-> m[x]]

(***************************************************************************)
(* Package repository queries (sql/schema_sqlite.sql and the repository    *)
(* that wraps them).                                                       *)
(***************************************************************************)
\* GetPackage: SELECT * FROM packages WHERE name = $1; 0 stands for nil
GetPackage(name) ==
    IF \E i \in 1..Len(packages) : packages[i].Name = name
      THEN CHOOSE i \in 1..Len(packages) : packages[i].Name = name
      ELSE 0

\* GetPackageVersions: the versions of a package, newest first
RECURSIVE VersionsDesc(_, _)
VersionsDesc(rows, packageID) ==
    IF rows = <<>> THEN <<>>
    ELSE LET rest == VersionsDesc(Tail(rows), packageID)
         IN  IF Head(rows).PackageID = packageID THEN Append(rest, Head(rows)) ELSE rest

GetPackageVersions(packageID) == VersionsDesc(package_versions, packageID)

\* GetPackageUploaders
GetUploaders(packageID) ==
    {u.uploader : u \in {r \in package_uploaders : r.package_id = packageID}}

\* a table without the UNIQUE(package_id, version) constraint
VersionUniqueNoConstraint(packageID, version) == TRUE

\* UNIQUE(package_id, version)
VersionUnique(packageID, version) ==
    \A i \in 1..Len(package_versions) :
        ~(package_versions[i].PackageID = packageID /\ package_versions[i].Version = version)

\* UNIQUE name
NameUnique(name) == \A i \in 1..Len(packages) : packages[i].Name # name

(***************************************************************************)
(* Responses.                                                              *)
(***************************************************************************)
\* an absent upload reported like a failed publish
UploadNotFoundAsPublishFailed ==
    [status |-> 400, code |-> "PUBLISH_FAILED",
     message |-> <<"Upload not found or already processed">>]

UploadNotFound ==
    [status |-> 400, code |-> "UPLOAD_NOT_FOUND",
     message |-> <<"Upload not found or already processed">>]
MissingUploadID ==
    [status |-> 400, code |-> "none", message |-> <<"Missing upload_id parameter">>]
PublishFailed(err) == [status |-> 400, code |-> "PUBLISH_FAILED", message |-> err]
PublishSucceeded ==
    [status |-> 200, code |-> "success", message |-> <<"Package published successfully">>]

\* what the caller of PublishPackage sees: the handler's response, or the
\* returned error for a direct caller of the service
Respond(via, err) ==
    IF via = "http"
      THEN IF err = NoError THEN PublishSucceeded ELSE PublishFailed(err)
      ELSE [status |-> 0, code |-> IF err = NoError THEN "success" ELSE "error",
            message |-> err]

Succeeded(p) == pc[p] = "done" /\ result[p].code = "success"
Failed(p) == pc[p] = "done" /\ result[p].code \in {"PUBLISH_FAILED", "error"}

(***************************************************************************)
(* What a request observes when it starts (history, for the properties).   *)
(***************************************************************************)
Observe(l) ==
    LET a == l.req.Archive
        ps == PubspecOf(a)
        id == GetPackage(ps.Name)
    IN  [l EXCEPT
           !.dupAtStart = HasPubspec(a) /\ id # 0 /\ ~VersionUnique(id, ps.Version),
           !.upAtStart = IF HasPubspec(a) /\ id # 0 THEN GetUploaders(id) ELSE {},
           !.newAtStart = HasPubspec(a) /\ id = 0]

RECURSIVE SumOver(_, _)
SumOver(f, S) ==
    IF S = {} THEN 0
    ELSE LET x == CHOOSE y \in S : TRUE IN f[x] + SumOver(f, S \ {x})

NumStaged == SumOver(staged, UploadIDs)
NumObtained == SumOver(obtained, UploadIDs)

\* the request of p is inside PublishPackage
InFlight(p) == pc[p] \notin {"idle", "done"}

\* the local variables when p enters PublishPackage with locals l (history:
\* p and every request inside PublishPackage now overlap)
Begin(p, l) ==
    [q \in Procs |->
        IF q = p THEN [l EXCEPT !.overlapped = \E r \in Procs \ {p} : InFlight(r)]
        ELSE IF InFlight(q) THEN [loc[q] EXCEPT !.overlapped = TRUE]
        ELSE loc[q]]

\* A new request is served by a free handler; handlers are interchangeable,
\* so the first free one is taken.
Free(p) == pc[p] = "idle" /\ (p = "p2" => pc["p1"] # "idle")

(***************************************************************************)
(* Phase 2: UploadPackageHandler.  The form is parsed, the file read, the  *)
(* token computed from the length and the request stored under the lock.   *)
(***************************************************************************)
\* the response of a successful staging: 204 No Content with the finalize
\* URL, which embeds the token, in the Location header
UploadResponse(archiveData) ==
    [status |-> 204, Location |-> <<"/api/packages/versions/newUploadFinish?upload_id=",
                                    FinalizeToken(archiveData)>>]

\* a staging that publishes eagerly: it also writes the archive to blob
\* storage under its token
UploadPackageHandlerStoring(archiveData) ==
    LET publishReq == [Archive |-> archiveData, Uploader |-> HandlerUploader]
        finalizeToken == FinalizeToken(archiveData)
    IN  /\ NumStaged < MaxStage
        /\ pendingUploads' = MapPut(pendingUploads, finalizeToken, publishReq)
        /\ files' = MapPut(files, finalizeToken, archiveData)
        /\ staged' = [staged EXCEPT ![finalizeToken] = @ + 1]
        /\ issued' = issued \cup {[token |-> finalizeToken, req |-> publishReq]}
        /\ tokState' = [tokState EXCEPT ![finalizeToken] = "fresh"]
        /\ loc' = [p \in Procs |->
                     IF loc[p].via = "http" /\ loc[p].uploadID = finalizeToken
                       THEN [loc[p] EXCEPT !.began = "superseded"] ELSE loc[p]]
        /\ UNCHANGED <<store, pc, result, obtained, nReq>>

UploadPackageHandler(archiveData) ==
    LET publishReq == [Archive |-> archiveData, Uploader |-> HandlerUploader]
        finalizeToken == FinalizeToken(archiveData)
    IN  /\ NumStaged < MaxStage
        /\ pendingUploads' = MapPut(pendingUploads, finalizeToken, publishReq)
        /\ staged' = [staged EXCEPT ![finalizeToken] = @ + 1]
        /\ issued' = issued \cup {[token |-> finalizeToken, req |-> publishReq]}
        /\ tokState' = [tokState EXCEPT ![finalizeToken] = "fresh"]
        /\ loc' = [p \in Procs |->
                     IF loc[p].via = "http" /\ loc[p].uploadID = finalizeToken
                       THEN [loc[p] EXCEPT !.began = "superseded"] ELSE loc[p]]
        /\ UNCHANGED <<store, files, pc, result, obtained, nReq>>

(***************************************************************************)
(* Phase 3: FinalizeUploadHandler, up to the call of PublishPackage: the   *)
(* lookup and the delete happen under uploadMutex.                         *)
(***************************************************************************)
\* a finalize that leaves the upload in the map
TakeUploadKept(uploads, uploadID) == uploads

\* delete(pendingUploads, uploadID)
TakeUpload(uploads, uploadID) == MapDelete(uploads, uploadID)

FinalizeUploadHandler(p, uploadID) ==
    /\ Free(p)
    /\ nReq < MaxRequests
    /\ nReq' = nReq + 1
    /\ IF uploadID = EmptyID
         THEN /\ pc' = [pc EXCEPT ![p] = "done"]
              /\ result' = [result EXCEPT ![p] = MissingUploadID]
              /\ loc' = [loc EXCEPT ![p] = [NoLoc EXCEPT !.via = "http"]]
              /\ UNCHANGED <<pendingUploads, tokState, issued, obtained>>
       ELSE IF uploadID \in DOMAIN pendingUploads
         THEN /\ pendingUploads' = TakeUpload(pendingUploads, uploadID)
              /\ pc' = [pc EXCEPT ![p] = "GetPackage"]
              /\ loc' = Begin(p,
                           Observe([NoLoc EXCEPT
                             !.via = "http", !.uploadID = uploadID,
                             !.req = pendingUploads[uploadID],
                             !.began = "taken",
                             !.expected = {i.req : i \in {j \in issued : j.token = uploadID}}]))
              /\ tokState' = [tokState EXCEPT ![uploadID] = "running"]
              /\ issued' = {i \in issued : i.token # uploadID}
              /\ obtained' = [obtained EXCEPT ![uploadID] = @ + 1]
              /\ UNCHANGED result
       ELSE   /\ pc' = [pc EXCEPT ![p] = "done"]
              /\ result' = [result EXCEPT ![p] = UploadNotFound]
              /\ loc' = [loc EXCEPT ![p] =
                           [NoLoc EXCEPT !.via = "http", !.uploadID = uploadID,
                                         !.began = tokState[uploadID]]]
              /\ UNCHANGED <<pendingUploads, tokState, issued, obtained>>
    /\ UNCHANGED <<store, files, staged>>

(***************************************************************************)
(* A direct call of PubService.PublishPackage (as the service tests do).   *)
(***************************************************************************)
PublishCall(p, archiveData, uploader) ==
    /\ Free(p)
    /\ nReq < MaxRequests
    /\ nReq' = nReq + 1
    /\ pc' = [pc EXCEPT ![p] = "GetPackage"]
    /\ loc' = Begin(p,
                 Observe([NoLoc EXCEPT !.via = "call",
                                       !.req = [Archive |-> archiveData,
                                                Uploader |-> uploader]]))
    /\ UNCHANGED <<pendingUploads, store, files, result, tokState, issued,
                   staged, obtained>>

(***************************************************************************)
(* packageService.PublishPackage, one action per call of a collaborator.   *)
(***************************************************************************)
\* the request returns err to its caller
Finish(p, err) ==
    /\ pc' = [pc EXCEPT ![p] = "done"]
    /\ result' = [result EXCEPT ![p] = Respond(loc[p].via, err)]
    /\ tokState' = IF loc[p].via = "http" /\ loc[p].began = "taken"
                     THEN [tokState EXCEPT ![loc[p].uploadID] =
                              IF err = NoError THEN "succeeded" ELSE "failed"]
                     ELSE tokState

\* steps 1-3: extract, parse, GetPackage
PublishGetPackage(p) ==
    LET ex == extractFilesFromArchive(Archives[loc[p].req.Archive])
        parsed == ParseYAML(ex.pubspecContent)
        pkg == GetPackage(parsed.pubspec.Name)
    IN  /\ pc[p] = "GetPackage"
        /\ IF ex.err # NoError
             THEN /\ Finish(p, Wrap("failed to extract files from archive", ex.err))
                  /\ UNCHANGED loc
           ELSE IF parsed.err # NoError
             THEN /\ Finish(p, Wrap("failed to parse pubspec.yaml", parsed.err))
                  /\ UNCHANGED loc
           ELSE IF pkg = 0
             THEN /\ pc' = [pc EXCEPT ![p] = "CreatePackage"]
                  /\ UNCHANGED <<loc, result, tokState>>
           ELSE   /\ pc' = [pc EXCEPT ![p] = "GetUploaders"]
                  /\ loc' = [loc EXCEPT ![p].pkg = pkg]
                  /\ UNCHANGED <<result, tokState>>
        /\ UNCHANGED <<pendingUploads, store, files, issued, staged, obtained, nReq>>

\* step 3: CreatePackage (INSERT INTO packages; name is UNIQUE)
PublishCreatePackage(p) ==
    LET name == PubspecOf(loc[p].req.Archive).Name
    IN  /\ pc[p] = "CreatePackage"
        /\ IF NameUnique(name)
             THEN /\ packages' = Append(packages,
                                   [ID |-> Len(packages) + 1, Name |-> name, Private |-> FALSE])
                  /\ pc' = [pc EXCEPT ![p] = "GetUploaders"]
                  /\ loc' = [loc EXCEPT ![p].pkg = Len(packages) + 1,
                                        ![p].wrote = @ \cup {"package"}]
                  /\ UNCHANGED <<result, tokState>>
             ELSE /\ Finish(p, <<"failed to create package", "UNIQUE constraint failed">>)
                  /\ UNCHANGED <<packages, loc>>
        /\ UNCHANGED <<pendingUploads, package_versions, package_uploaders, files,
                       issued, staged, obtained, nReq>>

\* a check that lets every uploader pass
AuthorizedAnyone(uploaders, uploader) == TRUE

\* slices.Contains(uploaders, req.Uploader)
Authorized(uploaders, uploader) == uploader \in uploaders

\* step 4: GetUploaders and the authorization check
PublishGetUploaders(p) ==
    LET uploaders == GetUploaders(loc[p].pkg)
    IN  /\ pc[p] = "GetUploaders"
        /\ IF uploaders = {}
             THEN /\ pc' = [pc EXCEPT ![p] = "AddUploader"]
                  /\ UNCHANGED <<result, tokState>>
           ELSE IF Authorized(uploaders, loc[p].req.Uploader)
             THEN /\ pc' = [pc EXCEPT ![p] = "GetPackageVersions"]
                  /\ UNCHANGED <<result, tokState>>
           ELSE Finish(p, <<"unauthorized">>)
        /\ UNCHANGED <<pendingUploads, store, files, loc, issued, staged, obtained, nReq>>

\* step 4: AddUploader (INSERT ... ON CONFLICT DO NOTHING)
PublishAddUploader(p) ==
    /\ pc[p] = "AddUploader"
    /\ package_uploaders' = package_uploaders \cup
                              {[package_id |-> loc[p].pkg, uploader |-> loc[p].req.Uploader]}
    /\ pc' = [pc EXCEPT ![p] = "GetPackageVersions"]
    /\ loc' = [loc EXCEPT ![p].wrote = @ \cup {"uploader"}]
    /\ UNCHANGED <<pendingUploads, packages, package_versions, files, result,
                   tokState, issued, staged, obtained, nReq>>

\* a duplicate check that is skipped
VersionExistsSkipped(versions, version) == FALSE

\* the loop of step 5 over the versions read
VersionExists(versions, version) ==
    \E i \in 1..Len(versions) : versions[i].Version = version

\* step 5: GetPackageVersions and the duplicate-version check
PublishGetPackageVersions(p) ==
    LET versions == GetPackageVersions(loc[p].pkg)
        pubspec == PubspecOf(loc[p].req.Archive)
    IN  /\ pc[p] = "GetPackageVersions"
        /\ IF VersionExists(versions, pubspec.Version)
             THEN Finish(p, <<"already exists">>)
             ELSE /\ pc' = [pc EXCEPT ![p] = "Store"]
                  /\ UNCHANGED <<result, tokState>>
        /\ UNCHANGED <<pendingUploads, store, files, loc, issued, staged, obtained, nReq>>

\* step 6: Storage.Store writes the archive under the key of (name, version)
PublishStore(p) ==
    LET pubspec == PubspecOf(loc[p].req.Archive)
        archivePath == StorageKey(pubspec.Name, pubspec.Version)
    IN  /\ pc[p] = "Store"
        /\ files' = MapPut(files, archivePath, loc[p].req.Archive)
        /\ pc' = [pc EXCEPT ![p] = "CreateVersion"]
        /\ loc' = [loc EXCEPT ![p].archivePath = archivePath,
                              ![p].wrote = @ \cup {"blob"}]
        /\ UNCHANGED <<pendingUploads, store, result, tokState, issued,
                       staged, obtained, nReq>>

\* a record whose hash is taken of no bytes instead of the archive
VersionRecordHashOfNothing(l) ==
    LET ex == extractFilesFromArchive(Archives[l.req.Archive])
        pubspec == ParseYAML(ex.pubspecContent).pubspec
    IN  [PackageID |-> l.pkg, Version |-> pubspec.Version,
         PubspecYaml |-> ex.pubspecContent, Readme |-> ex.readme,
         Changelog |-> ex.changelog, ArchivePath |-> l.archivePath,
         ArchiveSha256 |-> calculateSHA256(""),
         Uploader |-> l.req.Uploader, Retracted |-> FALSE]

\* the record of step 8
VersionRecord(l) ==
    LET ex == extractFilesFromArchive(Archives[l.req.Archive])
        pubspec == ParseYAML(ex.pubspecContent).pubspec
    IN  [PackageID |-> l.pkg, Version |-> pubspec.Version,
         PubspecYaml |-> ex.pubspecContent, Readme |-> ex.readme,
         Changelog |-> ex.changelog, ArchivePath |-> l.archivePath,
         ArchiveSha256 |-> calculateSHA256(l.req.Archive),
         Uploader |-> l.req.Uploader, Retracted |-> FALSE]

\* steps 7-8: CreateVersion (INSERT INTO package_versions)
PublishCreateVersion(p) ==
    LET version == VersionRecord(loc[p])
    IN  /\ pc[p] = "CreateVersion"
        /\ IF VersionUnique(version.PackageID, version.Version)
             THEN /\ package_versions' = Append(package_versions, version)
                  /\ loc' = [loc EXCEPT ![p].wrote = @ \cup {"version"}]
                  /\ Finish(p, NoError)
             ELSE /\ pc' = [pc EXCEPT ![p] = "Delete"]
                  /\ loc' = [loc EXCEPT ![p].err = <<"failed to create version record",
                                                     "UNIQUE constraint failed">>]
                  /\ UNCHANGED <<package_versions, result, tokState>>
        /\ UNCHANGED <<pendingUploads, packages, package_uploaders, files, issued,
                       staged, obtained, nReq>>

\* a clean-up that removes nothing
StorageDeleteNothing(fs, path) == fs

\* Storage.Delete removes the file
StorageDelete(fs, path) == MapDelete(fs, path)

\* the clean-up after a failed CreateVersion: _ = s.Storage.Delete(archivePath)
PublishDelete(p) ==
    /\ pc[p] = "Delete"
    /\ files' = StorageDelete(files, loc[p].archivePath)
    /\ loc' = [loc EXCEPT ![p].wrote = @ \cup {"delete"}]
    /\ Finish(p, loc[p].err)
    /\ UNCHANGED <<pendingUploads, store, issued, staged, obtained, nReq>>

\* the response has been sent; the handler is free for the next request
Return(p) ==
    /\ pc[p] = "done"
    /\ pc' = [pc EXCEPT ![p] = "idle"]
    /\ loc' = [loc EXCEPT ![p] = NoLoc]
    /\ result' = [result EXCEPT ![p] = NoResult]
    /\ UNCHANGED <<pendingUploads, store, files, tokState, issued, staged, obtained, nReq>>

\* the steps of PublishPackage
Publish(p) ==
    \/ PublishGetPackage(p)
    \/ PublishCreatePackage(p)
    \/ PublishGetUploaders(p)
    \/ PublishAddUploader(p)
    \/ PublishGetPackageVersions(p)
    \/ PublishStore(p)
    \/ PublishCreateVersion(p)
    \/ PublishDelete(p)

\* The server behind its HTTP interface: stagings and finalizes
Next ==
    \/ \E a \in ArchiveIds : UploadPackageHandler(a) /\ UNCHANGED <<call, ret>>
    \/ \E p \in Procs, id \in UploadIDs : FinalizeUploadHandler(p, id) /\ UNCHANGED <<call, ret>>
    \/ \E p \in Procs : Publish(p) /\ UNCHANGED <<call, ret>>
    \/ \E p \in Procs : Return(p) /\ UNCHANGED <<call, ret>>

Spec == Init /\ [][Next]_vars

\* The publish workflow behind the PubService interface
NextService ==
    \/ \E p \in Procs, a \in ArchiveIds, u \in Uploaders : PublishCall(p, a, u) /\ UNCHANGED <<call, ret>>
    \/ \E p \in Procs : Publish(p) /\ UNCHANGED <<call, ret>>
    \/ \E p \in Procs : Return(p) /\ UNCHANGED <<call, ret>>

SpecService == Init /\ [][NextService]_vars

(***************************************************************************)
(* Failures of the collaborators: a Store (database) call or a Blob Store  *)
(* call returns an I/O error.                                              *)
(***************************************************************************)
StoreCallError ==
    [GetPackage |-> "failed to check existing package",
     CreatePackage |-> "failed to create package",
     GetUploaders |-> "failed to get uploaders",
     AddUploader |-> "failed to add uploader",
     GetPackageVersions |-> "failed to get package versions"]

\* a Store call before the blob write fails: PublishPackage returns the error
StoreCallFails(p) ==
    /\ pc[p] \in DOMAIN StoreCallError
    /\ pc[p] = "GetPackage" => HasPubspec(loc[p].req.Archive)
    /\ Finish(p, <<StoreCallError[pc[p]], "I/O error">>)
    /\ UNCHANGED <<pendingUploads, store, files, loc, issued, staged, obtained, nReq>>

\* Storage.Store fails: nothing was written
StorageStoreFails(p) ==
    /\ pc[p] = "Store"
    /\ Finish(p, <<"failed to store archive", "I/O error">>)
    /\ UNCHANGED <<pendingUploads, store, files, loc, issued, staged, obtained, nReq>>

\* CreateVersion fails with an I/O error: no record, clean-up follows
CreateVersionFails(p) ==
    /\ pc[p] = "CreateVersion"
    /\ pc' = [pc EXCEPT ![p] = "Delete"]
    /\ loc' = [loc EXCEPT ![p].err = <<"failed to create version record", "I/O error">>]
    /\ UNCHANGED <<pendingUploads, store, files, result, tokState, issued,
                   staged, obtained, nReq>>

\* Storage.Delete fails in the clean-up: the error is discarded
StorageDeleteFails(p) ==
    /\ pc[p] = "Delete"
    /\ loc' = [loc EXCEPT ![p].wrote = @ \cup {"deleteFailed"}]
    /\ Finish(p, loc[p].err)
    /\ UNCHANGED <<pendingUploads, store, files, issued, staged, obtained, nReq>>

\* The server with failing collaborators: stagings, finalizes of the staged
\* uploads, and a failure as a possible outcome of every collaborator call
NextFaults ==
    \/ \E a \in ArchiveIds : UploadPackageHandler(a) /\ UNCHANGED <<call, ret>>
    \/ \E p \in Procs, id \in DOMAIN pendingUploads :
          FinalizeUploadHandler(p, id) /\ UNCHANGED <<call, ret>>
    \/ \E p \in Procs : Publish(p) /\ UNCHANGED <<call, ret>>
    \/ \E p \in Procs : Return(p) /\ UNCHANGED <<call, ret>>
    \/ \E p \in Procs : StoreCallFails(p) /\ UNCHANGED <<call, ret>>
    \/ \E p \in Procs : StorageStoreFails(p) /\ UNCHANGED <<call, ret>>
    \/ \E p \in Procs : CreateVersionFails(p) /\ UNCHANGED <<call, ret>>
    \/ \E p \in Procs : StorageDeleteFails(p) /\ UNCHANGED <<call, ret>>

SpecFaults == Init /\ [][NextFaults]_vars

(***************************************************************************)
(* The archive extractor on its own: extractFilesFromArchive applied to    *)
(* the archives of at most MaxEntries tar entries.                         *)
(***************************************************************************)
SeqsUpTo(S, n) == UNION {[1..k -> S] : k \in 0..n}

\* tar entries: manifests at the top, under "./", under the conventional
\* {package}-{version}/ directory and in subdirectories, as well as readme,
\* changelog, source files and a directory entry
TarEntries ==
    { FileEntry(<<"pubspec.yaml">>, Manifest(pkgA, V100)),
      FileEntry(<<".", "pubspec.yaml">>, Manifest(pkgA, V110)),
      FileEntry(<<"pkgA-1.0.0", "pubspec.yaml">>, Manifest(pkgA, V100)),
      FileEntry(<<"pkgA-1.0.0", "PUBSPEC.YAML">>, Manifest(pkgA, V110)),
      FileEntry(<<"sub", "pubspec.yaml">>, Manifest(pkgB, V100)),
      FileEntry(<<"pkgA-1.0.0", "sub", "pubspec.yaml">>, Manifest(pkgB, V110)),
      FileEntry(<<"README.md">>, Text("# Top")),
      FileEntry(<<"pkgA-1.0.0", "README.md">>, Text("# Hello")),
      FileEntry(<<"pkgA-1.0.0", "doc", "README.md">>, Text("# Doc")),
      FileEntry(<<"pkgA-1.0.0", "CHANGELOG.md">>, Text("## 1.0.0")),
      FileEntry(<<"CHANGELOG.md">>, Text("## Top")),
      FileEntry(<<"pkgA-1.0.0", "doc", "changelog.md">>, Text("## Doc")),
      FileEntry(<<"pkgA-1.0.0", "lib", "main.dart">>, Text("void main() {}")),
      DirEntry(<<"pkgA-1.0.0">>) }

ExtractCalls ==
    { [op |-> "extract",
       archiveData |-> [len |-> Len(es), gzip |-> gz, entries |-> es]] :
         es \in SeqsUpTo(TarEntries, MaxEntries), gz \in BOOLEAN }

InitExtract ==
    /\ Constructed
    /\ call \in ExtractCalls
    /\ ret = NoRet

\* pubspecContent, readme, changelog, err := s.extractFilesFromArchive(req.Archive)
ExtractCall ==
    /\ call.op = "extract"
    /\ ret = NoRet
    /\ ret' = [op |-> "extract", val |-> extractFilesFromArchive(call.archiveData)]
    /\ UNCHANGED <<server, call>>

NextExtract == ExtractCall

SpecExtract == InitExtract /\ [][NextExtract]_vars

(***************************************************************************)
(* The read path: PubService.GetPackage behind GetPackageHandler.  A nil   *)
(* pointer is the empty sequence, a non-nil one a sequence of one element. *)
(***************************************************************************)
Nil == <<>>

\* versionToResponseWithPackage returns [resp, err]
versionToResponseWithPackage(v, packageName) ==
    LET parsed == ParseYAML(v.PubspecYaml)
    IN  IF parsed.err # NoError THEN [resp |-> Nil, err |-> parsed.err]
        ELSE [resp |-> <<[Version |-> v.Version, Retracted |-> v.Retracted,
                          ArchiveURL |-> <<"/packages/", packageName, "/versions/",
                                           v.Version, "/download">>,
                          ArchiveSha256 |-> v.ArchiveSha256,
                          Pubspec |-> parsed.pubspec]>>,
              err |-> NoError]

\* a read that answers a package without versions with an empty list
GetPackageResponseEmptyList(packageID) ==
    LET versions == GetPackageVersions(packageID)
        name == packages[packageID].Name
        conv == [i \in 1..Len(versions) |-> versionToResponseWithPackage(versions[i], name)]
    IN  IF \E i \in 1..Len(versions) : conv[i].err # NoError
          THEN [resp |-> Nil,
                err |-> Wrap("failed to convert version response",
                             conv[CHOOSE i \in 1..Len(versions) : conv[i].err # NoError].err)]
        ELSE [resp |-> <<[Name |-> name,
                          Latest |-> IF versions = <<>> THEN Nil ELSE conv[1].resp,
                          Versions |-> [i \in 1..Len(versions) |-> conv[i].resp[1]]]>>,
              err |-> NoError]

\* a read whose latest is the newest version that is not retracted (the
\* query GetLatestPackageVersion)
GetPackageResponseLatestActive(packageID) ==
    LET versions == GetPackageVersions(packageID)
        name == packages[packageID].Name
        conv == [i \in 1..Len(versions) |-> versionToResponseWithPackage(versions[i], name)]
        active == {i \in 1..Len(versions) : ~versions[i].Retracted}
        first == IF active = {} THEN 1
                 ELSE CHOOSE i \in active : \A j \in active : i <= j
    IN  IF Len(versions) = 0
          THEN [resp |-> Nil, err |-> <<"package has no versions">>]
        ELSE IF \E i \in 1..Len(versions) : conv[i].err # NoError
          THEN [resp |-> Nil,
                err |-> Wrap("failed to convert version response",
                             conv[CHOOSE i \in 1..Len(versions) : conv[i].err # NoError].err)]
        ELSE [resp |-> <<[Name |-> name,
                          Latest |-> conv[first].resp,
                          Versions |-> [i \in 1..Len(versions) |-> conv[i].resp[1]]]>>,
              err |-> NoError]

\* GetPackage after the package was found: the versions are read, newest
\* first, and converted; returns [resp, err]
GetPackageResponse(packageID) ==
    LET versions == GetPackageVersions(packageID)
        name == packages[packageID].Name
        conv == [i \in 1..Len(versions) |-> versionToResponseWithPackage(versions[i], name)]
    IN  IF Len(versions) = 0
          THEN [resp |-> Nil, err |-> <<"package has no versions">>]
        ELSE IF \E i \in 1..Len(versions) : conv[i].err # NoError
          THEN [resp |-> Nil,
                err |-> Wrap("failed to convert version response",
                             conv[CHOOSE i \in 1..Len(versions) : conv[i].err # NoError].err)]
        ELSE [resp |-> <<[Name |-> name,
                          Latest |-> conv[1].resp,
                          Versions |-> [i \in 1..Len(versions) |-> conv[i].resp[1]]]>>,
              err |-> NoError]

\* GetPackageHandler: 500 for an error, 404 for nil, else the package
GetPackageStatus(r) ==
    IF r.err # NoError THEN 500 ELSE IF r.resp = Nil THEN 404 ELSE 200

\* the names that clients ask for
ReadNames == {pkgA, pkgB}

\* what a GetPackage request returned: val is the service's result; history:
\* began is the Store when the request started, again says that the request
\* before it asked for the same name and the Store has not changed since
\* that one started
GetPackageReturn(name, began, val) ==
    [op |-> "GetPackage", name |-> name, began |-> began, val |-> val,
     status |-> GetPackageStatus(val),
     again |-> ret.op = "GetPackage" /\ ret.name = name /\ ret.began = store]

\* a read that creates the package it does not find
GetPackageBeginCreating(name) ==
    /\ call = NoCall
    /\ IF GetPackage(name) = 0
         THEN /\ packages' = Append(packages,
                               [ID |-> Len(packages) + 1, Name |-> name, Private |-> FALSE])
              /\ ret' = GetPackageReturn(name, store, [resp |-> Nil, err |-> NoError])
              /\ call' = NoCall
         ELSE /\ call' = [op |-> "GetPackage", name |-> name,
                          pkg |-> GetPackage(name), began |-> store]
              /\ UNCHANGED <<ret, packages>>
    /\ UNCHANGED <<pendingUploads, package_versions, package_uploaders, files,
                   pc, loc, result, tokState, issued, staged, obtained, nReq>>

\* GetPackage, first Store call: s.Package.GetPackage; nil is returned at once
GetPackageBegin(name) ==
    /\ call = NoCall
    /\ IF GetPackage(name) = 0
         THEN /\ ret' = GetPackageReturn(name, store, [resp |-> Nil, err |-> NoError])
              /\ call' = NoCall
         ELSE /\ call' = [op |-> "GetPackage", name |-> name,
                          pkg |-> GetPackage(name), began |-> store]
              /\ UNCHANGED ret
    /\ UNCHANGED server

\* GetPackage, second Store call: s.Package.GetPackageVersions, and the rest
GetPackageEnd ==
    /\ call.op = "GetPackage"
    /\ ret' = GetPackageReturn(call.name, call.began, GetPackageResponse(call.pkg))
    /\ call' = NoCall
    /\ UNCHANGED server

\* the versions that clients ask for
ReadVersions == {V100, V110}

\* Storage.Get: the bytes of the file, or the error of Open
StorageGet(fs, path) ==
    IF path \in DOMAIN fs THEN [data |-> <<fs[path]>>, err |-> NoError]
    ELSE [data |-> Nil, err |-> <<"no such file or directory">>]

\* packageService.DownloadPackage returns [data, err]; ioError says that
\* Storage.Get fails with an I/O error
DownloadPackage(name, version, ioError) ==
    LET pkg == GetPackage(name)
        versions == GetPackageVersions(pkg)
        found == {i \in 1..Len(versions) : versions[i].Version = version}
        v == versions[CHOOSE i \in found : \A j \in found : i <= j]
        got == IF ioError THEN [data |-> Nil, err |-> <<"I/O error">>]
               ELSE StorageGet(files, v.ArchivePath)
    IN  IF pkg = 0 THEN [data |-> Nil, err |-> <<"package not found">>]
        ELSE IF found = {} THEN [data |-> Nil, err |-> <<"version not found">>]
        ELSE IF got.err # NoError
          THEN [data |-> Nil, err |-> Wrap("failed to get archive", got.err)]
        ELSE [data |-> got.data, err |-> NoError]

\* DownloadPackageHandler: every error of the service is answered with 404
DownloadStatus(r) == IF r.err # NoError THEN 404 ELSE 200

DownloadPackageHandler(name, version, ioError) ==
    /\ call = NoCall
    /\ ioError => DownloadPackage(name, version, FALSE).err = NoError
    /\ ret' = [op |-> "Download", name |-> name, version |-> version,
               val |-> DownloadPackage(name, version, ioError),
               status |-> DownloadStatus(DownloadPackage(name, version, ioError))]
    /\ UNCHANGED <<server, call>>

\* One handler publishing the staged uploads (with a failing blob write
\* among its outcomes) and a client that reads
NextRead ==
    \/ \E a \in ArchiveIds : UploadPackageHandler(a) /\ UNCHANGED <<call, ret>>
    \/ \E id \in DOMAIN pendingUploads :
          FinalizeUploadHandler("p1", id) /\ UNCHANGED <<call, ret>>
    \/ Publish("p1") /\ UNCHANGED <<call, ret>>
    \/ Return("p1") /\ UNCHANGED <<call, ret>>
    \/ StorageStoreFails("p1") /\ UNCHANGED <<call, ret>>
    \/ \E name \in ReadNames : GetPackageBegin(name)
    \/ GetPackageEnd
    \/ \E name \in ReadNames, version \in ReadVersions, ioError \in BOOLEAN :
          DownloadPackageHandler(name, version, ioError)

SpecRead == Init /\ [][NextRead]_vars

(***************************************************************************)
(* Authentication: authService and RequireAuthMiddleware.  A token is a    *)
(* string; an Authorization header is the sequence of the pieces whose     *)
(* concatenation it is ("Bearer " and a token, another scheme and a token, *)
(* a bare token), the empty sequence being the missing header "".          *)
(***************************************************************************)
TokenValues == {"", "r", "w", "x"}

\* NewAuthService(readTokens, writeTokens): the services that can be configured
AuthServices ==
    [readTokens : SUBSET TokenValues, writeTokens : SUBSET TokenValues]

AuthHeaders ==
    {<<>>, <<"Bearer ">>}
      \cup {<<scheme, t>> : scheme \in {"Bearer ", "bearer ", "Basic "},
                            t \in TokenValues \ {""}}
      \cup {<<t>> : t \in TokenValues \ {""}}

ValidateReadToken(s, token) ==
    IF token = "" THEN <<"token is required">>
    ELSE IF token \in s.readTokens THEN NoError
    ELSE IF token \in s.writeTokens THEN NoError
    ELSE <<"invalid token">>

\* a write check that read tokens pass
ValidateWriteTokenLikeRead(s, token) ==
    IF token = "" THEN <<"token is required">>
    ELSE IF token \in s.readTokens THEN NoError
    ELSE IF token \in s.writeTokens THEN NoError
    ELSE <<"invalid token">>

ValidateWriteToken(s, token) ==
    IF token = "" THEN <<"token is required">>
    ELSE IF token \in s.writeTokens THEN NoError
    ELSE <<"invalid token">>

\* strings.HasPrefix(authHeader, "Bearer ")
HasBearerPrefix(authHeader) == authHeader # <<>> /\ authHeader[1] = "Bearer "

\* strings.TrimPrefix(authHeader, "Bearer "): the rest of the header
TrimBearerPrefix(authHeader) == IF Len(authHeader) = 1 THEN "" ELSE authHeader[2]

AuthenticateReadRequest(s, authHeader) ==
    IF authHeader = <<>> THEN <<"authorization header is required">>
    ELSE IF ~HasBearerPrefix(authHeader)
      THEN <<"authorization header must start with 'Bearer '">>
    ELSE ValidateReadToken(s, TrimBearerPrefix(authHeader))

\* a write authentication that skips the scheme check
AuthenticateWriteRequestAnyScheme(s, authHeader) ==
    IF authHeader = <<>> THEN <<"authorization header is required">>
    ELSE ValidateWriteToken(s, authHeader[Len(authHeader)])

AuthenticateWriteRequest(s, authHeader) ==
    IF authHeader = <<>> THEN <<"authorization header is required">>
    ELSE IF ~HasBearerPrefix(authHeader)
      THEN <<"authorization header must start with 'Bearer '">>
    ELSE ValidateWriteToken(s, TrimBearerPrefix(authHeader))

\* auth.SetAuthenticated(ctx, authenticated) on the request's context
SetAuthenticated(ctx, authenticated) == [ctx EXCEPT !.authenticated = authenticated]

\* the context of an incoming request
Background == [authenticated |-> FALSE]

\* RequireAuthMiddleware(authSvc, writeRequired)(next) serving a request:
\* served is the sequence of the contexts next.ServeHTTP was called with,
\* status the status of the response (200 stands for the one next writes)
RequireAuthMiddleware(authSvc, writeRequired, authHeader) ==
    LET err == IF writeRequired THEN AuthenticateWriteRequest(authSvc, authHeader)
               ELSE AuthenticateReadRequest(authSvc, authHeader)
    IN  IF err # NoError THEN [status |-> 401, served |-> <<>>]
        ELSE [status |-> 200, served |-> <<SetAuthenticated(Background, TRUE)>>]

AuthCalls ==
    {[op |-> op, s |-> s, token |-> t] :
        op \in {"ValidateReadToken", "ValidateWriteToken"},
        s \in AuthServices, t \in TokenValues}
    \cup
    {[op |-> "RequireAuthMiddleware", s |-> s, writeRequired |-> w, authHeader |-> h] :
        s \in AuthServices, w \in BOOLEAN, h \in AuthHeaders}

InitAuth ==
    /\ Constructed
    /\ call \in AuthCalls
    /\ ret = NoRet

ValidateReadTokenCall ==
    /\ call.op = "ValidateReadToken"
    /\ ret = NoRet
    /\ ret' = [op |-> call.op, err |-> ValidateReadToken(call.s, call.token)]
    /\ UNCHANGED <<server, call>>

ValidateWriteTokenCall ==
    /\ call.op = "ValidateWriteToken"
    /\ ret = NoRet
    /\ ret' = [op |-> call.op, err |-> ValidateWriteToken(call.s, call.token)]
    /\ UNCHANGED <<server, call>>

RequireAuthMiddlewareCall ==
    /\ call.op = "RequireAuthMiddleware"
    /\ ret = NoRet
    /\ ret' = [op |-> call.op,
               val |-> RequireAuthMiddleware(call.s, call.writeRequired, call.authHeader)]
    /\ UNCHANGED <<server, call>>

NextAuth ==
    \/ ValidateReadTokenCall
    \/ ValidateWriteTokenCall
    \/ RequireAuthMiddlewareCall

SpecAuth == InitAuth /\ [][NextAuth]_vars

(***************************************************************************)
(* The manifest parser on its own: isValidVersion and ParseYAML applied to *)
(* version strings of at most MaxVersionLen characters.                    *)
(***************************************************************************)
VersionChars == {"1", ".", "-", "+", "v"}

VersionStrings == SeqsUpTo(VersionChars, MaxVersionLen)

\* name fields: absent, valid, not a package name
NameStrings == {<<>>, pkgA, <<"1", "a">>}

ParseCalls ==
    {[op |-> "isValidVersion", version |-> v] : v \in VersionStrings}
    \cup
    {[op |-> "ParseYAML", yamlContent |-> Manifest(n, v)] :
        n \in NameStrings, v \in VersionStrings}
    \cup
    {[op |-> "ParseYAML", yamlContent |-> m] : m \in {BlankManifest, MalformedManifest}}

InitParse ==
    /\ Constructed
    /\ call \in ParseCalls
    /\ ret = NoRet

IsValidVersionCall ==
    /\ call.op = "isValidVersion"
    /\ ret = NoRet
    /\ ret' = [op |-> call.op, ok |-> isValidVersion(call.version)]
    /\ UNCHANGED <<server, call>>

ParseYAMLCall ==
    /\ call.op = "ParseYAML"
    /\ ret = NoRet
    /\ ret' = [op |-> call.op, val |-> ParseYAML(call.yamlContent)]
    /\ UNCHANGED <<server, call>>

NextParse ==
    \/ IsValidVersionCall
    \/ ParseYAMLCall

SpecParse == InitParse /\ [][NextParse]_vars

(***************************************************************************)
(* The Blob Store on its own: the operations of storage.Repository on the  *)
(* local file system and on a GCS bucket.  files holds the regular files   *)
(* below basePath (local) or the objects of the bucket (GCS); call names   *)
(* the implementation, ret is what the last operation returned.            *)
(***************************************************************************)
\* localRepository.basePath of the deployment
BasePath == "/app/storage/"

legacyPathPrefix == "/app/storage/"

\* the bytes that clients store
BlobData == {"a1", "a2"}

\* localRepository.Store returns [fs, path, err]: MkdirAll, then WriteFile
\* of {basePath}/{name}/{version}/{name}-{version}.tar.gz
LocalStore(fs, packageName, version, data) ==
    LET path == <<BasePath>> \o StorageKey(packageName, version)
    IN  [fs |-> MapPut(fs, path, data), path |-> path, err |-> NoError]

\* localRepository.Exists: Stat succeeds
LocalExists(fs, path) == path \in DOMAIN fs

\* a Remove that reports success and leaves the file
LocalDeleteKeeping(fs, path) ==
    IF path \in DOMAIN fs THEN [fs |-> fs, err |-> NoError]
    ELSE [fs |-> fs, err |-> <<"no such file or directory">>]

\* localRepository.Delete returns [fs, err]: fs.Remove(path)
LocalDelete(fs, path) ==
    IF path \in DOMAIN fs THEN [fs |-> StorageDelete(fs, path), err |-> NoError]
    ELSE [fs |-> fs, err |-> <<"no such file or directory">>]

\* strings.TrimPrefix(path, legacyPathPrefix)
objectKey(path) ==
    IF Len(path) > 0 /\ path[1] = legacyPathPrefix THEN Tail(path) ELSE path

\* gcsRepository.Store returns [fs, path, err]: the object
\* {name}/{version}/{name}-{version}.tar.gz is written
gcsStore(fs, packageName, version, data) ==
    LET key == StorageKey(packageName, version)
    IN  [fs |-> MapPut(fs, key, data), path |-> key, err |-> NoError]

\* gcsRepository.Get and GetReader: NewReader of the object, wrapped error
gcsGet(fs, path, phrase) ==
    LET key == objectKey(path)
    IN  IF key \in DOMAIN fs THEN [data |-> <<fs[key]>>, err |-> NoError]
        ELSE [data |-> Nil, err |-> Wrap(phrase, <<"storage: object doesn't exist">>)]

\* gcsRepository.Exists: Attrs succeeds
gcsExists(fs, path) == objectKey(path) \in DOMAIN fs

\* gcsRepository.Delete returns [fs, err]
gcsDelete(fs, path) ==
    LET key == objectKey(path)
    IN  IF key \in DOMAIN fs THEN [fs |-> MapDelete(fs, key), err |-> NoError]
        ELSE [fs |-> fs, err |-> <<"storage: object doesn't exist">>]

\* the two implementations of storage.Repository
Backends == {"local", "gcs"}

RepositoryStore(b, fs, packageName, version, data) ==
    IF b = "local" THEN LocalStore(fs, packageName, version, data)
    ELSE gcsStore(fs, packageName, version, data)

RepositoryGet(b, fs, path) ==
    IF b = "local" THEN StorageGet(fs, path)
    ELSE gcsGet(fs, path, "failed to read from GCS")

RepositoryGetReader(b, fs, path) ==
    IF b = "local" THEN StorageGet(fs, path)
    ELSE gcsGet(fs, path, "failed to get reader from GCS")

RepositoryExists(b, fs, path) ==
    IF b = "local" THEN LocalExists(fs, path) ELSE gcsExists(fs, path)

RepositoryDelete(b, fs, path) ==
    IF b = "local" THEN LocalDelete(fs, path) ELSE gcsDelete(fs, path)

\* the paths that clients pass: the keys of Store, the same below the
\* legacy prefix, and a path that was never stored
BlobPaths ==
    {StorageKey(n, v) : n \in ReadNames, v \in ReadVersions}
    \cup {<<legacyPathPrefix>> \o StorageKey(n, v) : n \in ReadNames, v \in ReadVersions}
    \cup {<<"/nonexistent">>}

InitBlob ==
    /\ Constructed
    /\ call \in {[op |-> "storage", backend |-> b] : b \in Backends}
    /\ ret = NoRet

StoreCall(packageName, version, data) ==
    LET r == RepositoryStore(call.backend, files, packageName, version, data)
    IN  /\ call.op = "storage"
        /\ files' = r.fs
        /\ ret' = [op |-> "Store", data |-> data, path |-> r.path, err |-> r.err]
        /\ UNCHANGED <<pendingUploads, store, pc, loc, result, tokState, issued,
                       staged, obtained, nReq, call>>

\* history: held says whether the path addressed a blob when the operation
\* was called
GetCall(path) ==
    /\ call.op = "storage"
    /\ ret' = [op |-> "Get", path |-> path,
               held |-> RepositoryExists(call.backend, files, path),
               val |-> RepositoryGet(call.backend, files, path)]
    /\ UNCHANGED <<server, call>>

GetReaderCall(path) ==
    /\ call.op = "storage"
    /\ ret' = [op |-> "GetReader", path |-> path,
               held |-> RepositoryExists(call.backend, files, path),
               val |-> RepositoryGetReader(call.backend, files, path)]
    /\ UNCHANGED <<server, call>>

ExistsCall(path) ==
    /\ call.op = "storage"
    /\ ret' = [op |-> "Exists", path |-> path,
               val |-> RepositoryExists(call.backend, files, path)]
    /\ UNCHANGED <<server, call>>

DeleteCall(path) ==
    LET r == RepositoryDelete(call.backend, files, path)
    IN  /\ call.op = "storage"
        /\ files' = r.fs
        /\ ret' = [op |-> "Delete", path |-> path,
                   held |-> RepositoryExists(call.backend, files, path),
                   err |-> r.err]
        /\ UNCHANGED <<pendingUploads, store, pc, loc, result, tokState, issued,
                       staged, obtained, nReq, call>>

NextBlob ==
    \/ \E n \in ReadNames, v \in ReadVersions, d \in BlobData : StoreCall(n, v, d)
    \/ \E path \in BlobPaths : GetCall(path)
    \/ \E path \in BlobPaths : GetReaderCall(path)
    \/ \E path \in BlobPaths : ExistsCall(path)
    \/ \E path \in BlobPaths : DeleteCall(path)

SpecBlob == InitBlob /\ [][NextBlob]_vars

(***************************************************************************)
(* The read path over a filled Store: the server starts on a database that *)
(* holds the packages pkgA and pkgB and at most MaxVersions version rows,  *)
(* some of them retracted (the flag is set in the database, no operation   *)
(* of the server sets it), and clients read.                               *)
(***************************************************************************)
V200 == <<"2", ".", "0", ".", "0">>

StoredVersionStrings == {V100, V110, V200}

\* a row of package_versions as CreateVersion wrote it, with its flag
StoredVersion(packageID, name, version, retracted) ==
    [PackageID |-> packageID, Version |-> version,
     PubspecYaml |-> Manifest(name, version), Readme |-> NoContent,
     Changelog |-> NoContent, ArchivePath |-> StorageKey(name, version),
     ArchiveSha256 |-> calculateSHA256("a1"),
     Uploader |-> HandlerUploader, Retracted |-> retracted]

StoredPackages ==
    << [ID |-> 1, Name |-> pkgA, Private |-> FALSE],
       [ID |-> 2, Name |-> pkgB, Private |-> FALSE] >>

StoredRows ==
    {StoredVersion(i, StoredPackages[i].Name, v, r) :
        i \in 1..2, v \in StoredVersionStrings, r \in BOOLEAN}

\* the tables in creation order, UNIQUE(package_id, version) respected
StoredTables ==
    {rows \in SeqsUpTo(StoredRows, MaxVersions) :
        \A i, j \in 1..Len(rows) :
            (rows[i].PackageID = rows[j].PackageID /\ rows[i].Version = rows[j].Version)
               => i = j}

InitLatest ==
    /\ pendingUploads = << >>
    /\ packages = StoredPackages
    /\ package_versions \in StoredTables
    /\ package_uploaders = {[package_id |-> i, uploader |-> HandlerUploader] : i \in 1..2}
    /\ files = << >>
    /\ pc = [p \in Procs |-> "idle"]
    /\ loc = [p \in Procs |-> NoLoc]
    /\ result = [p \in Procs |-> NoResult]
    /\ tokState = [t \in UploadIDs |-> "fresh"]
    /\ issued = {}
    /\ staged = [t \in UploadIDs |-> 0]
    /\ obtained = [t \in UploadIDs |-> 0]
    /\ nReq = 0
    /\ call = NoCall
    /\ ret = NoRet

NextLatest ==
    \/ \E name \in ReadNames : GetPackageBegin(name)
    \/ GetPackageEnd

SpecLatest == InitLatest /\ [][NextLatest]_vars

(***************************************************************************)
(* Properties.                                                             *)
(***************************************************************************)
Range(f) == {f[x] : x \in DOMAIN f}

\* the request of p obtained a publish request (by token or by direct call)
Publishing(p) == loc[p].req # NoRequest

SameVersion(r1, r2) == r1.PackageID = r2.PackageID /\ r1.Version = r2.Version

\* C1: a version record, once created, is never deleted and its manifest
\* text, archive key, archive hash and uploader never change; there is at
\* most one record per (package, version string).
C1_VersionImmutable ==
    /\ [](\A i, j \in 1..Len(package_versions) :
             SameVersion(package_versions[i], package_versions[j]) => i = j)
    /\ [][\A r \in Range(package_versions) :
             \E r2 \in Range(package_versions') :
                 /\ SameVersion(r, r2)
                 /\ r2.PubspecYaml = r.PubspecYaml
                 /\ r2.ArchivePath = r.ArchivePath
                 /\ r2.ArchiveSha256 = r.ArchiveSha256
                 /\ r2.Uploader = r.Uploader]_vars

\* two finalizes of different archives that name the same (P, V) have both
\* returned and the record of the first is in the Store
C1_Witness ==
    /\ Len(package_versions) = 1
    /\ \E p, q \in Procs :
          /\ Succeeded(p) /\ Failed(q)
          /\ loc[p].req.Archive # loc[q].req.Archive
          /\ PubspecOf(loc[p].req.Archive) = PubspecOf(loc[q].req.Archive)
          /\ package_versions[1].ArchiveSha256 = calculateSHA256(loc[p].req.Archive)

\* C2: a PublishPackage that starts after the version record of its
\* manifest's (P, V) exists, by an uploader of P's uploader set, fails with
\* an error containing "already exists" and creates no version record.
C2_DuplicateRejected ==
    \A p \in Procs :
        (pc[p] = "done" /\ loc[p].dupAtStart /\ loc[p].req.Uploader \in loc[p].upAtStart)
        => /\ Failed(p)
           /\ Contains(result[p].message, "already exists")
           /\ "version" \notin loc[p].wrote

\* an authorized re-publish of an existing (P, V) with other archive bytes
\* has been rejected
C2_Witness ==
    \E p \in Procs :
        /\ pc[p] = "done" /\ loc[p].dupAtStart
        /\ loc[p].req.Uploader \in loc[p].upAtStart
        /\ \E i \in 1..Len(package_versions) :
              /\ package_versions[i].Version = PubspecOf(loc[p].req.Archive).Version
              /\ package_versions[i].ArchiveSha256 # calculateSHA256(loc[p].req.Archive)
        /\ Contains(result[p].message, "already exists")

\* the uploader set of the package that the manifest of archive a names
UploadersOf(a) == GetUploaders(GetPackage(PubspecOf(a).Name))

\* C3: a publish of a package name that is not in the Store, by uploader U,
\* succeeds and leaves the package's uploader set equal to {U}; a later
\* publish of a new version by another uploader fails with "unauthorized"
\* and creates no version record; a later publish of a new version by U
\* succeeds.
C3_FirstPublishAuthorization ==
    \A p \in Procs :
        LET U == loc[p].req.Uploader
        IN  pc[p] = "done" =>
              /\ loc[p].newAtStart =>
                    /\ Succeeded(p)
                    /\ UploadersOf(loc[p].req.Archive) = {U}
              /\ (\E U0 \in Uploaders \ {U} : loc[p].upAtStart = {U0}) /\ ~loc[p].dupAtStart =>
                    /\ Failed(p)
                    /\ Contains(result[p].message, "unauthorized")
                    /\ "version" \notin loc[p].wrote
              /\ loc[p].upAtStart = {U} /\ ~loc[p].dupAtStart => Succeeded(p)

\* the finalize requests that carry token t and have not yet been answered
\* or whose answer is still on display
Carrying(t) == {p \in Procs : loc[p].via = "http" /\ loc[p].uploadID = t}

\* C4: of the finalize requests that carry a token staged once, exactly one
\* obtains the pending upload and runs the publish workflow; every other one
\* is answered with the upload-not-found error and runs no publish.  No
\* token is finalized more often than it was staged.
C4_NoDoubleFinalization ==
    \A t \in UploadIDs :
        /\ obtained[t] <= staged[t]
        /\ staged[t] = 1 =>
              /\ obtained[t] + (IF t \in DOMAIN pendingUploads THEN 1 ELSE 0) = 1
              /\ Cardinality({p \in Carrying(t) : Publishing(p)}) <= 1
              /\ \A p \in Carrying(t) :
                    ~Publishing(p) => /\ pc[p] = "done"
                                      /\ result[p].code = "UPLOAD_NOT_FOUND"
                                      /\ loc[p].wrote = {}

\* two finalize requests carry the same token, staged once: one is running
\* the publish workflow, the other was answered with upload-not-found
C4_Witness ==
    \E t \in UploadIDs, p, q \in Procs :
        /\ staged[t] = 1 /\ obtained[t] = 1
        /\ p # q /\ {p, q} \subseteq Carrying(t)
        /\ Publishing(p) /\ InFlight(p)
        /\ pc[q] = "done" /\ result[q].code = "UPLOAD_NOT_FOUND"

\* C5: a staging never replaces another pending upload: as long as no
\* finalize has found an upload, the pending set holds as many uploads as
\* there were successful stagings.
C5_StagingNeverReplaces ==
    NumObtained = 0 => Cardinality(DOMAIN pendingUploads) = NumStaged

\* C6: the request that a finalize with token t hands to the publish
\* workflow is the one submitted in every staging that returned t and that
\* no finalize had consumed.
C6_TokenBindsUpload ==
    \A p \in Procs :
        (loc[p].via = "http" /\ Publishing(p)) =>
            \A r \in loc[p].expected : r = loc[p].req

\* C7: the first finalize that carries the token of a pending upload removes
\* it, whatever the outcome of the publish; a finalize of a token whose
\* upload was consumed by a failed finalize, with no staging since, is
\* answered with upload-not-found and runs no publish.
C7_ConsumedOnce ==
    /\ \A t \in UploadIDs :
          tokState[t] \in {"running", "failed", "succeeded"} => t \notin DOMAIN pendingUploads
    /\ \A p \in Procs :
          (loc[p].via = "http" /\ pc[p] # "idle" /\ loc[p].began = "failed")
          => /\ pc[p] = "done"
             /\ result[p].code = "UPLOAD_NOT_FOUND"
             /\ ~Publishing(p)
             /\ loc[p].wrote = {}

\* a finalize failed in the publish workflow and a second finalize of the
\* same token, with no staging in between, was answered upload-not-found
C7_Witness ==
    \E p \in Procs, t \in UploadIDs :
        /\ tokState[t] = "failed" /\ t \notin DOMAIN pendingUploads
        /\ loc[p].via = "http" /\ loc[p].uploadID = t /\ loc[p].began = "failed"
        /\ pc[p] = "done" /\ result[p].code = "UPLOAD_NOT_FOUND"

\* C8 as stated: a finalize of a token whose upload was consumed by a
\* successful finalize, with no staging since, fails with an error that
\* contains "already exists".
C8_ResubmitAlreadyExists ==
    \A p \in Procs :
        (loc[p].via = "http" /\ pc[p] = "done" /\ loc[p].began = "succeeded")
        => Contains(result[p].message, "already exists")

\* C8 amended: such a finalize is answered with upload-not-found, whose
\* message does not contain "already exists"; a finalize of a re-uploaded
\* archive whose manifest names an existing (P, V) fails with an error that
\* contains "already exists".
C8_ResubmitNotFound ==
    \A p \in Procs :
        (loc[p].via = "http" /\ pc[p] = "done") =>
            /\ loc[p].began = "succeeded" =>
                  /\ result[p].code = "UPLOAD_NOT_FOUND"
                  /\ ~Contains(result[p].message, "already exists")
            /\ (Publishing(p) /\ loc[p].dupAtStart) =>
                  /\ result[p].code = "PUBLISH_FAILED"
                  /\ Contains(result[p].message, "already exists")

\* the token of a successful finalize was submitted again and, in another
\* request, the same manifest was uploaded again and finalized
C8_Witness ==
    \E p, q \in Procs :
        /\ p # q
        /\ loc[p].via = "http" /\ pc[p] = "done" /\ loc[p].began = "succeeded"
        /\ result[p].code = "UPLOAD_NOT_FOUND"
        /\ loc[q].via = "http" /\ pc[q] = "done" /\ Publishing(q) /\ loc[q].dupAtStart
        /\ Contains(result[q].message, "already exists")

\* p starts a finalize with a non-empty upload_id that is not pending
FinalizeAbsent(p) ==
    /\ pc[p] = "idle" /\ pc'[p] # "idle"
    /\ loc'[p].via = "http"
    /\ loc'[p].uploadID # EmptyID
    /\ loc'[p].uploadID \notin DOMAIN pendingUploads

\* C9: a finalize with a token that is not in the pending set is answered
\* with code UPLOAD_NOT_FOUND and changes neither the pending set nor the
\* Store nor the Blob Store; a finalize that fails in the publish workflow
\* (extraction, validation, authorization, duplicate version) is answered
\* with the different code PUBLISH_FAILED.
C9_UploadNotFound ==
    /\ [][\A p \in Procs :
             FinalizeAbsent(p) =>
                /\ pc'[p] = "done"
                /\ result'[p].code = "UPLOAD_NOT_FOUND"
                /\ UNCHANGED <<pendingUploads, packages, package_versions,
                               package_uploaders, files>>]_vars
    /\ [](\A p \in Procs :
             (loc[p].via = "http" /\ Publishing(p) /\ Failed(p))
             => /\ result[p].code = "PUBLISH_FAILED"
                /\ result[p].code # "UPLOAD_NOT_FOUND")

\* a finalize with the never-staged token was answered upload-not-found
\* while another finalize failed in the publish workflow
C9_Witness ==
    \E p, q \in Procs :
        /\ pc[p] = "done" /\ loc[p].uploadID = UnusedID
        /\ result[p].code = "UPLOAD_NOT_FOUND"
        /\ loc[q].via = "http" /\ Publishing(q) /\ Failed(q)
        /\ result[q].code = "PUBLISH_FAILED"

\* p returns from the clean-up after a failed CreateVersion that followed a
\* successful blob write, and no other request is in flight
CleanupReturns(p) ==
    /\ pc[p] = "Delete" /\ pc'[p] = "done"
    /\ \A q \in Procs \ {p} : ~InFlight(q)

StoreWrites(p) == loc[p].wrote \cap {"package", "uploader", "version"}

\* C11: a finalize whose Blob Store write failed has made no Store write:
\* package records, uploader sets and version records are what they were
\* when it started, for a new package name as for an existing package.
C11_BlobFailureLeavesStore ==
    \A p \in Procs :
        (pc[p] = "done" /\ Contains(result[p].message, "failed to store archive"))
        => StoreWrites(p) = {}

\* C12: a successful staging (204, Location = finalize URL with the token)
\* changes only the pending-upload set: it creates no package, version or
\* uploader record and no blob, whether the archive is valid or not; as
\* long as no finalize has obtained an upload the Store and the Blob Store
\* are empty.
C12_StagingFrame ==
    /\ [][\A t \in UploadIDs :
             staged'[t] # staged[t] =>
                /\ UNCHANGED <<packages, package_versions, package_uploaders, files>>
                /\ t \in DOMAIN pendingUploads'
                /\ UploadResponse(pendingUploads'[t].Archive).status = 204
                /\ UploadResponse(pendingUploads'[t].Archive).Location[2] = t
                /\ \A u \in DOMAIN pendingUploads \ {t} :
                      u \in DOMAIN pendingUploads' /\ pendingUploads'[u] = pendingUploads[u]]_vars
    /\ [](NumObtained = 0 =>
             /\ packages = <<>> /\ package_versions = <<>>
             /\ package_uploaders = {} /\ files = <<>>)

\* a valid archive and an archive without root manifest are both staged and
\* pending, and nothing else exists
C12_Witness ==
    /\ \E t, u \in DOMAIN pendingUploads :
          /\ HasPubspec(pendingUploads[t].Archive)
          /\ ~HasPubspec(pendingUploads[u].Archive)
    /\ NumStaged = 2 /\ NumObtained = 0
    /\ packages = <<>> /\ files = <<>>

\* the Store (pkgs, versions) holds the package that archive a names, with
\* exactly one version record: of the manifest's version, with the digest
\* of the raw bytes of a, the readme and the changelog of a, and an archive
\* key under which the Blob Store (fs) holds a
FirstPublishRecorded(a, pkgs, versions, fs) ==
    LET ex == extractFilesFromArchive(Archives[a])
        ids == {i \in 1..Len(pkgs) : pkgs[i].Name = PubspecOf(a).Name}
        rows == {i \in 1..Len(versions) : versions[i].PackageID \in ids}
    IN  /\ Cardinality(ids) = 1
        /\ Cardinality(rows) = 1
        /\ \A i \in rows :
              LET r == versions[i]
              IN  /\ r.Version = PubspecOf(a).Version
                  /\ r.ArchiveSha256 = <<"sha256", a>>
                  /\ r.ArchiveSha256 # <<>>
                  /\ r.Readme = ex.readme
                  /\ r.Changelog = ex.changelog
                  /\ r.ArchivePath \in DOMAIN fs
                  /\ fs[r.ArchivePath] = a

\* the finalize of p, which obtained a valid archive whose package name was
\* not in the Store and which no other publish overlapped, returns
FirstFinalizeReturns(p) ==
    /\ InFlight(p) /\ pc'[p] = "done"
    /\ loc[p].via = "http"
    /\ loc[p].newAtStart
    /\ ~loc'[p].overlapped

IsRootPrefix(seg) == seg \in {"pkgA-1.0.0", "pkgB-1.0.0"}

\* the entry name, with a leading "./" dropped, is a file at the archive's
\* logical root: at the top or directly in the {package}-{version}/ directory
AtLogicalRoot(name) ==
    LET t == IF Len(name) > 1 /\ name[1] = "." THEN Tail(name) ELSE name
    IN  \/ Len(t) = 1
        \/ Len(t) = 2 /\ IsRootPrefix(t[1])

\* the archive has a file pubspec.yaml (in any case) at its logical root
HasRootManifest(archiveData) ==
    \E i \in 1..Len(archiveData.entries) :
        LET e == archiveData.entries[i]
        IN  /\ e.Typeflag = "file"
            /\ AtLogicalRoot(e.Name)
            /\ ToLower(e.Name[Len(e.Name)]) = "pubspec.yaml"

\* C14: the extractor fails with "pubspec.yaml not found in archive" for
\* every (gzip) archive that has no pubspec.yaml at its logical root, such
\* as an archive whose only manifest is sub/pubspec.yaml and an archive
\* with no manifest entry at all.
C14_ManifestRootEnforced ==
    (ret.op = "extract" /\ call.archiveData.gzip /\ ~HasRootManifest(call.archiveData))
    => Contains(ret.val.err, "pubspec.yaml not found in archive")

\* a GetPackage request for name n starts / returns in this step
BeginsRead(n) ==
    /\ call = NoCall
    /\ \/ call'.op = "GetPackage" /\ call'.name = n
       \/ call' = NoCall /\ ret' # ret /\ ret'.op = "GetPackage" /\ ret'.name = n

EndsRead(n) ==
    \/ call.op = "GetPackage" /\ call.name = n /\ call' = NoCall
    \/ BeginsRead(n) /\ call' = NoCall

\* C15: GetPackage(name) returns nil and no error when the Store has no
\* package of that name; when the package record exists and has no version
\* record it returns an error, never nil without error and never a response
\* with an empty version list.
C15_GetPackageAbsentOrEmpty ==
    [][\A n \in ReadNames :
          /\ (BeginsRead(n) /\ GetPackage(n) = 0)
                => /\ call' = NoCall
                   /\ ret'.val = [resp |-> Nil, err |-> NoError]
          /\ (EndsRead(n) /\ GetPackage(n) # 0 /\ GetPackageVersions(GetPackage(n)) = <<>>)
                => /\ ret'.val.err # NoError
                   /\ ret'.val.resp = Nil
          /\ (EndsRead(n) /\ ret'.val.err = NoError /\ ret'.val.resp # Nil)
                => Len(ret'.val.resp[1].Versions) >= 1]_vars

\* a failed blob write left a package without versions, no publish is in
\* progress, and GetPackage of it returned the error
C15_Witness ==
    /\ ret.op = "GetPackage"
    /\ Contains(ret.val.err, "package has no versions")
    /\ ret.val.resp = Nil
    /\ pc["p1"] = "idle"
    /\ GetPackage(ret.name) # 0

\* C16: GetPackage changes neither the Store nor the Blob Store nor the
\* pending uploads, and a GetPackage that returns while the Store is still
\* what it was when the previous GetPackage of the same name started returns
\* what that one returned.
C16_GetPackageIdempotent ==
    [][/\ (call' # call \/ ret' # ret)
             => UNCHANGED <<packages, package_versions, package_uploaders, files,
                            pendingUploads>>
       /\ \A n \in ReadNames :
             (EndsRead(n) /\ ret.op = "GetPackage" /\ ret.name = n /\ ret.began = store)
             => ret'.val = ret.val]_vars

\* a package with a version was read twice with no write in between
C16_Witness ==
    /\ ret.op = "GetPackage"
    /\ ret.again
    /\ ret.val.resp # Nil
    /\ Len(ret.val.resp[1].Versions) = 1

\* C17: an unexpected Store or Blob Store failure is answered with HTTP
\* 500, not with the 400 of malformed input nor the 404 of an absent package
\* or version: a finalize whose Store or Blob Store call failed, and a
\* download of an existing version whose blob read failed.
C17_UnexpectedFailureIs500 ==
    /\ \A p \in Procs :
          (pc[p] = "done" /\ loc[p].via = "http" /\ Contains(result[p].message, "I/O error"))
          => result[p].status = 500
    /\ (ret.op = "Download" /\ Contains(ret.val.err, "I/O error"))
          => ret.status = 500

\* C18: ValidateReadToken accepts a token exactly when it is non-empty and
\* in the read-token set or the write-token set; ValidateWriteToken accepts
\* exactly the non-empty members of the write-token set; hence no token
\* that is only a read token passes the write check and every token that
\* passes the write check passes the read check.
C18_TokenValidation ==
    /\ ret.op = "ValidateReadToken" =>
          (ret.err = NoError <=>
             call.token # "" /\ call.token \in call.s.readTokens \cup call.s.writeTokens)
    /\ ret.op = "ValidateWriteToken" =>
          /\ ret.err = NoError <=>
                call.token # "" /\ call.token \in call.s.writeTokens
          /\ call.token \in call.s.readTokens \ call.s.writeTokens => ret.err # NoError
          /\ ret.err = NoError => ValidateReadToken(call.s, call.token) = NoError

\* a token that is in the read set only was refused by the write check
C18_Witness ==
    /\ ret.op = "ValidateWriteToken"
    /\ call.token \in call.s.readTokens \ call.s.writeTokens
    /\ call.token # ""
    /\ ret.err = <<"invalid token">>

\* the token is accepted for the capability that the middleware requires
AcceptedFor(s, writeRequired, token) ==
    /\ token # ""
    /\ \/ token \in s.writeTokens
       \/ ~writeRequired /\ token \in s.readTokens

\* C19: RequireAuthMiddleware(writeRequired) invokes the wrapped handler
\* only when the Authorization header is "Bearer " followed by a token
\* accepted for the required capability, and then once, with the context
\* marked authenticated; for every other header it answers 401 and does not
\* invoke the wrapped handler.
C19_MiddlewareGuards ==
    ret.op = "RequireAuthMiddleware" =>
        IF /\ Len(call.authHeader) = 2
           /\ call.authHeader[1] = "Bearer "
           /\ AcceptedFor(call.s, call.writeRequired, call.authHeader[2])
          THEN /\ Len(ret.val.served) = 1
               /\ ret.val.served[1].authenticated
          ELSE /\ ret.val.status = 401
               /\ ret.val.served = <<>>

\* a request with a read-only token was refused by the middleware that
\* requires write access
C19_Witness ==
    /\ ret.op = "RequireAuthMiddleware"
    /\ call.writeRequired
    /\ call.authHeader = <<"Bearer ", "r">>
    /\ "r" \in call.s.readTokens \ call.s.writeTokens
    /\ ret.val.status = 401
    /\ ret.val.served = <<>>

\* the positions at which the parts of v start, v being cut at every "."
PartStarts(v) == {1} \cup {i + 1 : i \in {j \in 1..Len(v) : v[j] = "."}}

\* the part of v that starts at position s ends before the next "."
PartEnd(v, s) ==
    IF \E i \in s..Len(v) : v[i] = "."
      THEN (CHOOSE i \in s..Len(v) : v[i] = "." /\ \A j \in s..(i - 1) : v[j] # ".") - 1
      ELSE Len(v)

\* v has at least three parts, none of them empty, and each of them
\* contains "-" or "+" or starts with a decimal digit
WellFormedVersion(v) ==
    /\ Cardinality(PartStarts(v)) >= 3
    /\ \A s \in PartStarts(v) :
          /\ PartEnd(v, s) >= s
          /\ \/ \E i \in s..PartEnd(v, s) : v[i] \in {"-", "+"}
             \/ v[s] \in Digits

\* C20: isValidVersion(v) is true exactly when v, split on ".", has at
\* least three parts, every part is non-empty and every part contains "-"
\* or "+" or starts with a decimal digit; ParseYAML returns an error for
\* every manifest whose version fails this check or whose name or version
\* is empty.
C20_VersionSyntax ==
    /\ ret.op = "isValidVersion" => (ret.ok <=> WellFormedVersion(call.version))
    /\ (/\ ret.op = "ParseYAML"
        /\ \/ call.yamlContent.name = <<>>
           \/ call.yamlContent.version = <<>>
           \/ ~WellFormedVersion(call.yamlContent.version))
       => ret.val.err # NoError

\* the manifest of pkgA with version "1.v.1" was rejected for its version,
\* while "1.-.1" passes the check
C20_Witness ==
    /\ ret.op = "ParseYAML"
    /\ call.yamlContent = Manifest(pkgA, <<"1", ".", "v", ".", "1">>)
    /\ Contains(ret.val.err, "invalid version format")
    /\ isValidVersion(<<"1", ".", "-", ".", "1">>)

\* the path addresses a blob of the implementation named by call
HoldsBlob(path) == RepositoryExists(call.backend, files, path)

LostDuplicateRace(p) ==
    /\ pc[p] = "done"
    /\ "blob" \in loc[p].wrote
    /\ "version" \notin loc[p].wrote

\* C22: when two finalizes whose manifests name the same (P, V) both pass
\* the duplicate-version read check before either writes, exactly one
\* creates the version record and the other fails with an error whose
\* message contains "already exists".
C22_RaceLoserAlreadyExists ==
    /\ \A i, j \in 1..Len(package_versions) :
          SameVersion(package_versions[i], package_versions[j]) => i = j
    /\ \A p \in Procs :
          LostDuplicateRace(p) =>
             /\ Failed(p)
             /\ \E i \in 1..Len(package_versions) :
                   /\ package_versions[i].PackageID = loc[p].pkg
                   /\ package_versions[i].Version = PubspecOf(loc[p].req.Archive).Version
             /\ Contains(result[p].message, "already exists")

\* the request of p was rejected at archive extraction, at manifest
\* validation, at the authorization check or at the duplicate-version check
RejectedAtGate(p) ==
    /\ Failed(p)
    /\ \E phrase \in {"failed to extract files from archive",
                      "failed to parse pubspec.yaml",
                      "unauthorized", "already exists"} :
          Contains(result[p].message, phrase)

\* C23: a finalize that is rejected at archive extraction, at manifest
\* validation, at the uploader-authorization check or at the
\* duplicate-version check has written nothing to the Store or the Blob
\* Store: it created no package, uploader, version or blob.
C23_RejectedWritesNothing ==
    \A p \in Procs : RejectedAtGate(p) => loc[p].wrote = {}

\* the request of p passes the authorization gate in this step: it reads
\* the uploader set of its package
ReadsUploaders(p) == pc[p] = "GetUploaders" /\ pc'[p] # "GetUploaders"

\* the uploader of p is not a member of the non-empty uploader set
Stranger(p) ==
    /\ GetUploaders(loc[p].pkg) # {}
    /\ loc[p].req.Uploader \notin GetUploaders(loc[p].pkg)

\* the version of p's manifest exists for its package
Duplicate(p) ==
    ~VersionUnique(loc[p].pkg, PubspecOf(loc[p].req.Archive).Version)

\* C24: the uploader-authorization gate precedes the duplicate-version
\* gate: a publish whose uploader is not a member of the non-empty uploader
\* set that the gate reads fails there with the "unauthorized" error, also
\* when the manifest's version already exists for the package; a publish
\* that fails with "already exists" is by a member of the uploader set.
C24_AuthorizationBeforeDuplicate ==
    /\ [][\A p \in Procs :
             (ReadsUploaders(p) /\ Stranger(p)) =>
                /\ pc'[p] = "done"
                /\ result'[p].code \in {"PUBLISH_FAILED", "error"}
                /\ Contains(result'[p].message, "unauthorized")
                /\ ~Contains(result'[p].message, "already exists")]_vars
    /\ [](\A p \in Procs :
             (Failed(p) /\ Contains(result[p].message, "already exists"))
                => loc[p].req.Uploader \in GetUploaders(loc[p].pkg))

\* a publish of an existing (P, V) by an uploader outside the package's
\* uploader set has been rejected as unauthorized
C24_Witness ==
    \E p \in Procs :
        /\ Failed(p)
        /\ loc[p].pkg # 0 /\ Stranger(p) /\ Duplicate(p)
        /\ loc[p].dupAtStart
        /\ Contains(result[p].message, "unauthorized")

\* no publish is inside PublishPackage
Quiescent == \A p \in Procs : ~InFlight(p)

\* C25: a package record is created only by a publish that succeeds: when
\* no finalize is in progress, every package record in the Store has at
\* least one version record (so GetPackage of it does not fail with
\* "package has no versions").
C25_PackagesHaveVersions ==
    Quiescent =>
       \A i \in 1..Len(packages) :
          /\ GetPackageVersions(packages[i].ID) # <<>>
          /\ ~Contains(GetPackageResponse(packages[i].ID).err, "package has no versions")

\* C26: when no finalize is in progress, each version record's archive key
\* addresses an existing blob whose SHA-256 equals the record's archive
\* hash, and Download(P, V) returns those bytes; this holds also after
\* concurrent finalizes of the same (P, V) with different archive bytes.
C26_ArchivesIntact ==
    Quiescent =>
       \A i \in 1..Len(package_versions) :
          LET v == package_versions[i]
              got == DownloadPackage(packages[v.PackageID].Name, v.Version, FALSE)
          IN  /\ v.ArchivePath \in DOMAIN files
              /\ calculateSHA256(files[v.ArchivePath]) = v.ArchiveSha256
              /\ got.err = NoError
              /\ calculateSHA256(got.data[1]) = v.ArchiveSha256

\* C27: first-publish-wins under concurrency: when publishes by different
\* uploaders for the same package with an empty uploader set interleave, at
\* most one uploader is auto-authorized; in every reachable state the
\* uploader set of each package has at most one member.
C27_SingleUploader ==
    \A i \in 1..Len(packages) : Cardinality(GetUploaders(packages[i].ID)) <= 1

\* C28: each version record names an uploader who is a member of its
\* package's uploader set, so a package that has a version never has an
\* empty uploader set; and the uploader set never shrinks.
C28_VersionUploaderIsMember ==
    /\ [](\A i \in 1..Len(package_versions) :
             LET v == package_versions[i]
             IN  /\ v.Uploader \in GetUploaders(v.PackageID)
                 /\ GetUploaders(v.PackageID) # {})
    /\ [][package_uploaders \subseteq package_uploaders']_vars

\* two uploaders were both authorized by the check-then-add race and each
\* has published a version of the package
C28_Witness ==
    \E i, j \in 1..Len(package_versions) :
        /\ package_versions[i].PackageID = package_versions[j].PackageID
        /\ package_versions[i].Uploader = HandlerUploader
        /\ package_versions[j].Uploader = "bob"
        /\ {HandlerUploader, "bob"} \subseteq GetUploaders(package_versions[i].PackageID)

\* the position in package_versions (the creation order) of the row of
\* package id with version string v
CreatedAs(id, v) ==
    CHOOSE i \in 1..Len(package_versions) :
        package_versions[i].PackageID = id /\ package_versions[i].Version = v

\* the rows of package id
RowsOf(id) == {i \in 1..Len(package_versions) : package_versions[i].PackageID = id}

Trimmed(name) == IF Len(name) > 1 /\ name[1] = "." THEN Tail(name) ELSE name

\* the entry is a file whose base name is base, in any case
NamedAs(e, base) == e.Typeflag = "file" /\ ToLower(e.Name[Len(e.Name)]) = base

\* the entry lies at the top of the archive or directly in a directory at
\* the top
Shallow(e) == Len(Trimmed(e.Name)) <= 2

AnyDepth(e) == TRUE

\* the content of the last (of the first) entry named base among those
\* that Where admits; NoContent when there is none
LastNamed(entries, base, Where(_)) ==
    LET S == {i \in 1..Len(entries) : NamedAs(entries[i], base) /\ Where(entries[i])}
    IN  IF S = {} THEN NoContent
        ELSE entries[CHOOSE i \in S : \A j \in S : j <= i].content

FirstNamed(entries, base, Where(_)) ==
    LET S == {i \in 1..Len(entries) : NamedAs(entries[i], base) /\ Where(entries[i])}
    IN  entries[CHOOSE i \in S : \A j \in S : i <= j].content

\* an extraction has succeeded
Extracted == ret.op = "extract" /\ ret.val.err = NoError

\* C30 as stated: the extractor returns the content of the last file entry
\* named readme.md, and of the last named changelog.md (case-insensitive),
\* at any directory depth of the archive; of several root-level
\* pubspec.yaml entries only the first is kept.
C30_ReadmeAnyDepth ==
    Extracted =>
       /\ ret.val.readme = LastNamed(call.archiveData.entries, "readme.md", AnyDepth)
       /\ ret.val.changelog = LastNamed(call.archiveData.entries, "changelog.md", AnyDepth)
       /\ ret.val.pubspecContent
             = FirstNamed(call.archiveData.entries, "pubspec.yaml", Shallow)

\* C30 amended: the same for the entries at the top of the archive or
\* directly in a directory at the top (the name, without a leading "./",
\* has at most two segments); deeper entries are ignored.
C30_ReadmeShallow ==
    Extracted =>
       /\ ret.val.readme = LastNamed(call.archiveData.entries, "readme.md", Shallow)
       /\ ret.val.changelog = LastNamed(call.archiveData.entries, "changelog.md", Shallow)
       /\ ret.val.pubspecContent
             = FirstNamed(call.archiveData.entries, "pubspec.yaml", Shallow)

\* an archive with its manifest and two readme entries, README.md at the
\* top followed by pkgA-1.0.0/README.md, was extracted: the second one is
\* the readme returned
C30_Witness ==
    /\ Extracted
    /\ Len(call.archiveData.entries) = 3
    /\ call.archiveData.entries[2] = FileEntry(<<"README.md">>, Text("# Top"))
    /\ call.archiveData.entries[3] = FileEntry(<<"pkgA-1.0.0", "README.md">>, Text("# Hello"))
    /\ ret.val.readme = Text("# Hello")

====
